---- MODULE Spec2Model ----
(***************************************************************************)
(* State-machine model of traditional_example.py: the checkpoint-gated     *)
(* training loop (train_model), the checkpoint gate (verify_checkpoint),   *)
(* the two-stage orchestrator (run_cifar100_experiment) and the run driver *)
(* (main).  One process run executes main once; the checkpoint file at     *)
(* CHECKPOINT_PATH survives from one process run to the next.              *)
(*                                                                         *)
(* Floats are modelled exactly: a validation accuracy 100.0*correct/total  *)
(* is the pair <<100*correct, total>> compared by cross-multiplication; a  *)
(* classifier accuracy is an integer number of tenths of a percent.        *)
(***************************************************************************)
EXTENDS Integers, Sequences, FiniteSets, TLC

\* ------------------------------------------------------------------ bounds
\* epochs of one train_model call (the source's default is 200)
Epochs == 3
\* number of process runs (invocations of main) in one behaviour
MaxRuns == 3

\* ------------------------------------------------------- program constants
\* batch_size of both data loaders
BatchSize == 128
\* the quality floor 10.0 of the classifier gate, in tenths of a percent
QualityFloor == 100
\* the training floor of train_model's result: best_acc > 50
TrainFloor == <<50, 1>>
\* lr=0.1 of optim.SGD, in units of 1e-4
InitialLr == 1000
\* gamma = 0.2 of MultiStepLR, as the divisor 5 (an exact division on the
\* values 1000, 200, 40 the learning rate takes)
GammaDiv == 5
Milestones == {60, 120, 160}

\* --------------------------------------------------------- input domains
\* len() of the datasets get_dataset returns inside verify_checkpoint
TrainLens == {100, 128, 300}
ValLens == {0, 100, 130}
\* share (percent, rounded down) of a batch the network predicts correctly
ValPct == {0, 50, 55}
TrainPct == {0, 50}
\* loss.item() of one batch, in arbitrary units
LossValues == {1}
\* the subset_size argument of run_cifar100_experiment (0: no cap)
SubsetSizes == {0, 3, 200, 5000}
\* len() of the datasets get_dataset returns in stage 2
Stage2TrainLens == {300, 4000}
Stage2TestLens == {30, 100000}
\* cifar_exp.classifiers, an ordered collection of names
ClassifierLists == {<<>>, <<"knn", "svm">>}
\* accuracy returned by train_and_evaluate, in tenths of a percent
AccuracyValues == {99, 100}

\* ----------------------------------------------------------- float helpers
Zero == <<0, 1>>
FloatGT(a, b) == a[1] * b[2] > b[1] * a[2]
FloatEQ(a, b) == a[1] * b[2] = b[1] * a[2]
FloatGE(a, b) == ~FloatGT(b, a)

Min(a, b) == IF a < b THEN a ELSE b

\* the maximum of a non-empty sequence of accuracies
MaxAcc(s) ==
    s[CHOOSE i \in 1..Len(s) : \A j \in 1..Len(s) : ~FloatGT(s[j], s[i])]

\* --------------------------------------------------------------- variables
VARIABLES
    pc,            \* position of the running process ("idle"/"exited": none)
    runs,          \* number of process runs started so far
    ckpt,          \* the file at CHECKPOINT_PATH
    \* --- locals of verify_checkpoint / train_model
    train_loader, val_loader,   \* batch sizes the loaders yield, in order
    epoch, bi,                  \* loop indices (bi: batches consumed in pass)
    best_acc, acc,
    train_loss, val_loss, correct, total,
    current_lr,                 \* <<>> while unbound, else <<lr>>
    lr, last_epoch,             \* optimizer.param_groups[0]["lr"], scheduler
    steps,                      \* optimizer.step() calls = version of weights
    \* --- locals of run_cifar100_experiment
    subset_size, train_dataset, test_dataset,
    train_features, test_features, classifiers, results,
    gate_ret,      \* what verify_checkpoint returned in this run
    runResult,     \* what run_cifar100_experiment returned in this run
    exitStatus, exitPath,
    \* --- history
    val_accs,      \* validation accuracies observed by this train_model call
    stored,        \* the file after each epoch's checkpoint decision
    gateLog,       \* the two most recent verify_checkpoint calls, over all runs
    cause,         \* why this run did not succeed
    stage2_ran,    \* a stage-2 step was executed in this run
    gated,         \* <<accuracies>> the quality gate judged, <<>> before it
    raisedAt,      \* where an exception was raised in this run
    evaluated      \* accuracies of the classifiers evaluated in this run

trainVars == <<train_loader, val_loader, epoch, bi, best_acc, acc, train_loss,
               val_loss, correct, total, current_lr, lr, last_epoch, steps>>
stageVars == <<subset_size, train_dataset, test_dataset, train_features,
               test_features, classifiers, results>>
exitVars == <<runResult, exitStatus, exitPath>>
histVars == <<val_accs, stored>>
vars == <<pc, runs, ckpt, trainVars, stageVars, gate_ret, exitVars, histVars,
          gateLog, cause, stage2_ran, gated, raisedAt, evaluated>>

NoFile == [file |-> "none", acc |-> Zero, epoch |-> 0, model_state_dict |-> 0]
\* a file whose write was cut short: its contents are not a record
PartialFile == [file |-> "partial", acc |-> Zero, epoch |-> 0, model_state_dict |-> 0]
NoDataset == [base |-> 0, first |-> 0]

TrainPcs == {"epoch", "train_batch", "val_batch", "decide", "saving", "sched",
             "train_ret"}
\* positions inside verify_checkpoint after its existence test
GatePcs == {"build"} \cup TrainPcs
Stage2Pcs == {"construct", "load", "extract_train", "extract_test", "classify"}
RunningPcs == GatePcs \cup Stage2Pcs \cup {"verify", "gate_check", "main_check"}

\* fresh locals of a process
TrainInit ==
    /\ train_loader = <<>> /\ val_loader = <<>>
    /\ epoch = 0 /\ bi = 0
    /\ best_acc = Zero /\ acc = Zero
    /\ train_loss = 0 /\ val_loss = 0 /\ correct = 0 /\ total = 0
    /\ current_lr = <<>>
    /\ lr = 0 /\ last_epoch = 0 /\ steps = 0
StageInit ==
    /\ subset_size = 0
    /\ train_dataset = NoDataset /\ test_dataset = NoDataset
    /\ train_features = 0 /\ test_features = 0
    /\ classifiers = <<>> /\ results = <<>>

Init ==
    /\ pc = "idle" /\ runs = 0
    /\ ckpt = NoFile
    /\ TrainInit /\ StageInit
    /\ gate_ret = "none" /\ runResult = "none"
    /\ exitStatus = -1 /\ exitPath = "none"
    /\ val_accs = <<>> /\ stored = <<>>
    /\ gateLog = <<>>
    /\ cause = "none" /\ stage2_ran = FALSE /\ raisedAt = "none"
    /\ gated = <<>> /\ evaluated = <<>>

\* the locals of a process are gone once it has exited
ResetTrain ==
    /\ train_loader' = <<>> /\ val_loader' = <<>>
    /\ epoch' = 0 /\ bi' = 0
    /\ best_acc' = Zero /\ acc' = Zero
    /\ train_loss' = 0 /\ val_loss' = 0 /\ correct' = 0 /\ total' = 0
    /\ current_lr' = <<>>
    /\ lr' = 0 /\ last_epoch' = 0 /\ steps' = 0
ResetStage ==
    /\ subset_size' = 0
    /\ train_dataset' = NoDataset /\ test_dataset' = NoDataset
    /\ train_features' = 0 /\ test_features' = 0
    /\ classifiers' = <<>> /\ results' = <<>>

\* gateLog with field f of its last entry replaced
LogSet(f, v) == [gateLog EXCEPT ![Len(gateLog)][f] = v]
\* gateLog keeps the two most recent calls
LogAdd(e) == IF Len(gateLog) < 2 THEN Append(gateLog, e) ELSE <<gateLog[2], e>>

\* ------------------------------------------------- exception propagation
\* variant: the try block opens only after the test split's features
InTry_LateTry(p) == p \in Stage2Pcs \ {"construct", "load", "extract_train", "extract_test"}

\* the try block of run_cifar100_experiment encloses the stage-2 steps
InTry(p) == p \in Stage2Pcs

\* an exception no handler catches: the interpreter prints the traceback and
\* the process ends with status 1
Escape(why) ==
    /\ pc' = "exited"
    /\ exitStatus' = 1 /\ exitPath' = "uncaught"
    /\ cause' = why /\ raisedAt' = pc
    /\ gateLog' = IF pc \in GatePcs THEN LogSet("ret", "raised") ELSE gateLog
    /\ ResetTrain /\ ResetStage
    /\ val_accs' = <<>> /\ stored' = <<>>
    /\ UNCHANGED <<runs, gate_ret, runResult, stage2_ran, gated, evaluated>>

\* variant: a failing classifier is skipped and the loop goes on
Caught_Local(why) ==
    IF pc = "classify" /\ Len(results) < Len(classifiers)
    THEN /\ classifiers' = [i \in 1..(Len(classifiers) - 1) |->
                               IF i <= Len(results) THEN classifiers[i]
                               ELSE classifiers[i + 1]]
         /\ cause' = why /\ raisedAt' = pc
         /\ UNCHANGED <<pc, runs, trainVars, subset_size, train_dataset,
                        test_dataset, train_features, test_features, results,
                        gate_ret, exitVars, histVars, gateLog, stage2_ran,
                        gated, evaluated>>
    ELSE /\ pc' = "main_check"
         /\ runResult' = "false"
         /\ cause' = why /\ raisedAt' = pc
         /\ ResetStage
         /\ UNCHANGED <<runs, trainVars, gate_ret, exitStatus, exitPath,
                        histVars, gateLog, stage2_ran, gated, evaluated>>

\* except Exception: log, return False
Caught(why) ==
    /\ pc' = "main_check"
    /\ runResult' = "false"
    /\ cause' = why /\ raisedAt' = pc
    /\ ResetStage
    /\ UNCHANGED <<runs, trainVars, gate_ret, exitStatus, exitPath, histVars,
                   gateLog, stage2_ran, gated, evaluated>>

Propagate(why) == IF InTry(pc) THEN Caught(why) ELSE Escape(why)

\* ------------------------------------------------------------------ main
\* variant: main ignores the experiment's result
ExitCode_Ignored(result) == 0

ExitCode(result) == IF result = "false" THEN 1 ELSE 0

\* main up to the call of run_cifar100_experiment(subset_size)
Main ==
    /\ pc \in {"idle", "exited"}
    /\ runs < MaxRuns
    /\ runs' = runs + 1
    /\ pc' = "verify"
    /\ gate_ret' = "none" /\ runResult' = "none"
    /\ exitStatus' = -1 /\ exitPath' = "none"
    /\ cause' = "none" /\ stage2_ran' = FALSE /\ raisedAt' = "none"
    /\ gated' = <<>> /\ evaluated' = <<>>
    /\ UNCHANGED <<ckpt, trainVars, stageVars, histVars, gateLog>>

\* if not run_cifar100_experiment(...): sys.exit(1)
MainCheck ==
    /\ pc = "main_check"
    /\ pc' = "exited"
    /\ exitStatus' = ExitCode(runResult)
    /\ exitPath' = IF ExitCode(runResult) = 0 THEN "normal" ELSE "sys_exit"
    /\ gated' = <<>> /\ evaluated' = <<>>
    /\ UNCHANGED <<runs, ckpt, trainVars, stageVars, gate_ret, runResult,
                   histVars, gateLog, cause, stage2_ran, raisedAt>>

\* ------------------------------------------------------ verify_checkpoint
\* variant: the gate re-validates the stored accuracy against the floor
CheckpointExists_Revalidate(f) == f.file = "complete" /\ f.acc[1] * 1 > 50 * f.acc[2]

\* variant: the gate never finds the file and always trains
CheckpointExists_Never(f) == f.file = "absent"

\* Path(CHECKPOINT_PATH).exists()
CheckpointExists(f) == f.file # "none"

VerifyCheckpoint ==
    /\ pc = "verify"
    /\ IF CheckpointExists(ckpt)
       THEN /\ pc' = "gate_check"
            /\ gate_ret' = "true"
            /\ gateLog' = LogAdd(
                   [file |-> ckpt.file, trained |-> FALSE, completed |-> FALSE,
                    observed |-> Zero, ret |-> "true"])
       ELSE /\ pc' = "build"
            /\ gate_ret' = gate_ret
            /\ gateLog' = LogAdd(
                   [file |-> ckpt.file, trained |-> FALSE, completed |-> FALSE,
                    observed |-> Zero, ret |-> "pending"])
    /\ UNCHANGED <<runs, ckpt, trainVars, stageVars, exitVars, histVars, cause,
                   stage2_ran, gated, raisedAt,
                   evaluated>>

\* the batch sizes a DataLoader(batch_size=BatchSize, drop_last=d) yields over
\* a dataset of n samples
Batches(n, d) ==
    [i \in 1..(n \div BatchSize) |-> BatchSize]
    \o (IF n % BatchSize > 0 /\ ~d THEN <<n % BatchSize>> ELSE <<>>)

\* datasets, loaders and model of verify_checkpoint, then train_model up to
\* its epoch loop
BuildWith(trainLens, valLens) ==
    /\ pc = "build"
    /\ \E tl \in trainLens, vl \in valLens :
          /\ train_loader' = Batches(tl, TRUE)
          /\ val_loader' = Batches(vl, FALSE)
    /\ best_acc' = Zero
    /\ lr' = InitialLr /\ last_epoch' = 0
    /\ epoch' = 0
    /\ pc' = "epoch"
    /\ gateLog' = LogSet("trained", TRUE)
    /\ UNCHANGED <<runs, ckpt, bi, acc, train_loss, val_loss, correct, total,
                   current_lr, steps, stageVars, gate_ret, exitVars, histVars,
                   cause, stage2_ran, gated, raisedAt,
                   evaluated>>

Build == BuildWith(TrainLens, ValLens)

\* ------------------------------------------------------------ train_model
\* number of correct predictions the network may make on a batch
CorrectChoices(size, pcts) == {(size * p) \div 100 : p \in pcts}

\* for epoch in range(epochs): ... train_loss = 0; correct = 0; total = 0
EpochLoopFor(epochs) ==
    /\ pc = "epoch"
    /\ IF epoch < epochs
       THEN /\ train_loss' = 0 /\ correct' = 0 /\ total' = 0
            /\ bi' = 0
            /\ pc' = "train_batch"
       ELSE /\ pc' = "train_ret"
            /\ UNCHANGED <<train_loss, correct, total, bi>>
    /\ UNCHANGED <<runs, ckpt, train_loader, val_loader, epoch, best_acc, acc,
                   val_loss, current_lr, lr, last_epoch, steps, stageVars,
                   gate_ret, exitVars, histVars, gateLog, cause, stage2_ran,
                   gated, raisedAt,
                   evaluated>>

\* variant: the scheduler is also stepped at the top of each epoch
EpochLoop_StepFirst ==
    /\ pc = "epoch"
    /\ IF epoch < Epochs
       THEN /\ train_loss' = 0 /\ correct' = 0 /\ total' = 0
            /\ bi' = 0
            /\ last_epoch' = last_epoch + 1
            /\ pc' = "train_batch"
       ELSE /\ pc' = "train_ret"
            /\ UNCHANGED <<train_loss, correct, total, bi, last_epoch>>
    /\ UNCHANGED <<runs, ckpt, train_loader, val_loader, epoch, best_acc, acc,
                   val_loss, current_lr, lr, steps, stageVars, gate_ret,
                   exitVars, histVars, gateLog, cause, stage2_ran, gated,
                   raisedAt,
                   evaluated>>

EpochLoop == EpochLoopFor(Epochs)

\* one iteration of the training loop, the network's share of correct
\* predictions drawn from pcts
TrainBatchWith(pcts) ==
    /\ pc = "train_batch"
    /\ bi < Len(train_loader)
    /\ LET size == train_loader[bi + 1] IN
       \E c \in CorrectChoices(size, pcts), l \in LossValues :
          /\ train_loss' = train_loss + l
          /\ total' = total + size
          /\ correct' = correct + c
    /\ steps' = steps + 1
    /\ current_lr' = <<lr>>
    /\ bi' = bi + 1
    /\ UNCHANGED <<pc, runs, ckpt, train_loader, val_loader, epoch, best_acc,
                   acc, val_loss, lr, last_epoch, stageVars, gate_ret, exitVars,
                   histVars, gateLog, cause, stage2_ran, gated, raisedAt,
                   evaluated>>

TrainBatch == TrainBatchWith(TrainPct)

\* variant: the validation pass goes on counting where the train pass ended
ValStart_NoReset ==
    /\ pc = "train_batch"
    /\ bi = Len(train_loader)
    /\ val_loss' = 0
    /\ bi' = 0
    /\ pc' = "val_batch"
    /\ UNCHANGED <<runs, ckpt, train_loader, val_loader, epoch, best_acc, acc,
                   train_loss, correct, total, current_lr, lr, last_epoch,
                   steps, stageVars, gate_ret, exitVars, histVars, gateLog,
                   cause, stage2_ran, gated, raisedAt, evaluated>>

\* the training loop ends; model.eval(); val_loss = 0; correct = 0; total = 0
ValStart ==
    /\ pc = "train_batch"
    /\ bi = Len(train_loader)
    /\ val_loss' = 0 /\ correct' = 0 /\ total' = 0
    /\ bi' = 0
    /\ pc' = "val_batch"
    /\ UNCHANGED <<runs, ckpt, train_loader, val_loader, epoch, best_acc, acc,
                   train_loss, current_lr, lr, last_epoch, steps, stageVars,
                   gate_ret, exitVars, histVars, gateLog, cause, stage2_ran,
                   gated, raisedAt,
                   evaluated>>

\* one iteration of the validation loop, the network's share of correct
\* predictions drawn from pcts
ValBatchWith(pcts) ==
    /\ pc = "val_batch"
    /\ bi < Len(val_loader)
    /\ LET size == val_loader[bi + 1] IN
       \E c \in CorrectChoices(size, pcts), l \in LossValues :
          /\ val_loss' = val_loss + l
          /\ total' = total + size
          /\ correct' = correct + c
    /\ bi' = bi + 1
    /\ UNCHANGED <<pc, runs, ckpt, train_loader, val_loader, epoch, best_acc,
                   acc, train_loss, current_lr, lr, last_epoch, steps,
                   stageVars, gate_ret, exitVars, histVars, gateLog, cause,
                   stage2_ran, gated, raisedAt,
                   evaluated>>

ValBatch == ValBatchWith(ValPct)

\* acc = 100.0 * correct / total
Accuracy(c, t) == <<100 * c, t>>

\* the validation loop ends; acc is computed and logged with current_lr
ValEnd ==
    /\ pc = "val_batch"
    /\ bi = Len(val_loader)
    /\ IF total = 0 THEN Escape("ZeroDivisionError")
       ELSE IF current_lr = <<>> THEN Escape("UnboundLocalError")
       ELSE /\ acc' = Accuracy(correct, total)
            /\ val_accs' = Append(val_accs, acc')
            /\ pc' = "decide"
            /\ UNCHANGED <<runs, train_loader, val_loader, epoch, bi, best_acc,
                           train_loss, val_loss, correct, total, current_lr,
                           lr, last_epoch, steps, stageVars, gate_ret, exitVars,
                           stored, gateLog, cause, stage2_ran, gated, raisedAt,
                   evaluated>>
    /\ UNCHANGED ckpt

\* variant: only an accuracy above the training floor is checkpointed
Improved_AboveFloor(a, best) == FloatGT(a, best) /\ FloatGT(a, TrainFloor)

\* variant: an epoch that ties the best accuracy also writes a checkpoint
Improved_NonStrict(a, best) == FloatGE(a, best)

\* variant: a checkpoint is written after every epoch
Improved_Always(a, best) == TRUE

\* if acc > best_acc
Improved(a, best) == FloatGT(a, best)

\* state = {"model_state_dict": ..., "acc": acc, "epoch": epoch}
CheckpointState(a, e, weights) ==
    [file |-> "complete", acc |-> a, epoch |-> e, model_state_dict |-> weights]

\* the checkpoint decision; torch.save opens CHECKPOINT_PATH for writing,
\* which truncates it, and then writes the record
Decide ==
    /\ pc = "decide"
    /\ IF Improved(acc, best_acc)
       THEN /\ best_acc' = acc
            /\ ckpt' = PartialFile
            /\ pc' = "saving"
            /\ stored' = stored
       ELSE /\ pc' = "sched"
            /\ stored' = Append(stored, ckpt)
            /\ UNCHANGED <<best_acc, ckpt>>
    /\ UNCHANGED <<runs, train_loader, val_loader, epoch, bi, acc, train_loss,
                   val_loss, correct, total, current_lr, lr, last_epoch, steps,
                   stageVars, gate_ret, exitVars, val_accs, gateLog, cause,
                   stage2_ran, gated, raisedAt,
                   evaluated>>

\* torch.save finishes writing the record
SaveFinish ==
    /\ pc = "saving"
    /\ ckpt' = CheckpointState(acc, epoch, steps)
    /\ stored' = Append(stored, ckpt')
    /\ pc' = "sched"
    /\ UNCHANGED <<runs, trainVars, stageVars, gate_ret, exitVars, val_accs,
                   gateLog, cause, stage2_ran, gated, raisedAt,
                   evaluated>>

\* variant: the decay is applied one epoch late
NextLr_Late(rate, e) == IF (e - 1) \in Milestones THEN rate \div GammaDiv ELSE rate

\* MultiStepLR.step(): the learning rate is multiplied by gamma at a milestone
NextLr(rate, e) == IF e \in Milestones THEN rate \div GammaDiv ELSE rate

\* scheduler.step(), and the loop moves to the next epoch
SchedStep ==
    /\ pc = "sched"
    /\ last_epoch' = last_epoch + 1
    /\ lr' = NextLr(lr, last_epoch')
    /\ epoch' = epoch + 1
    /\ pc' = "epoch"
    /\ UNCHANGED <<runs, ckpt, train_loader, val_loader, bi, best_acc, acc,
                   train_loss, val_loss, correct, total, current_lr, steps,
                   stageVars, gate_ret, exitVars, histVars, gateLog, cause,
                   stage2_ran, gated, raisedAt,
                   evaluated>>

\* the best validation accuracy the finished train_model call observed
Observed == IF val_accs = <<>> THEN Zero ELSE MaxAcc(val_accs)

\* variant: the comparison is inverted
TrainingOK_Inverted(best) == FloatGT(TrainFloor, best)

\* return best_acc > 50
TrainingOK(best) == FloatGT(best, TrainFloor)

\* train_model returns and verify_checkpoint returns its verdict
TrainReturn ==
    /\ pc = "train_ret"
    /\ LET ok == TrainingOK(best_acc) IN
          /\ gate_ret' = IF ok THEN "true" ELSE "false"
          /\ cause' = IF ok THEN cause ELSE "train_floor"
          /\ gateLog' = [gateLog EXCEPT ![Len(gateLog)] =
                 [@ EXCEPT !.completed = TRUE, !.observed = Observed,
                           !.ret = IF ok THEN "true" ELSE "false"]]
    /\ pc' = "gate_check"
    /\ ResetTrain
    /\ val_accs' = <<>> /\ stored' = <<>>
    /\ UNCHANGED <<runs, ckpt, stageVars, exitVars, stage2_ran, gated, raisedAt,
                   evaluated>>

\* ------------------------------------------------ run_cifar100_experiment
\* variant: the gate's verdict is not acted on
GateAbort_Never(ret) == FALSE

\* if not verify_checkpoint(): return False
GateAbort(ret) == ret = "false"

GateCheck ==
    /\ pc = "gate_check"
    /\ IF GateAbort(gate_ret)
       THEN /\ runResult' = "false"
            /\ pc' = "main_check"
            /\ ResetStage
       ELSE /\ pc' = "construct"
            /\ UNCHANGED <<runResult, stageVars>>
    /\ UNCHANGED <<runs, ckpt, trainVars, gate_ret, exitStatus, exitPath,
                   histVars, gateLog, cause, stage2_ran, gated, raisedAt,
                   evaluated>>

\* cifar_exp = TraditionalExperiment(config=..., subset_size=subset_size);
\* the subset_size argument is drawn here, where it is first used
Construct ==
    /\ pc = "construct"
    /\ subset_size' \in SubsetSizes
    /\ classifiers' \in ClassifierLists
    /\ stage2_ran' = TRUE
    /\ pc' = "load"
    /\ UNCHANGED <<runs, ckpt, trainVars, train_dataset, test_dataset,
                   train_features, test_features, results, gate_ret, exitVars,
                   histVars, gateLog, cause, gated, raisedAt,
                   evaluated>>

\* len(range(n))
RangeLen(n) == IF n > 0 THEN n ELSE 0

\* Subset(train_dataset, range(min(subset_size, len(train_dataset)))) when
\* subset_size is truthy; the result is the number of leading samples kept
TrainView(cap, n) == IF cap # 0 THEN RangeLen(Min(cap, n)) ELSE n

\* variant: the test split is capped like the train split
TestView_NoFifth(cap, n) == IF cap # 0 THEN RangeLen(Min(cap, n)) ELSE n

\* Subset(test_dataset, range(min(subset_size // 5, len(test_dataset))))
TestView(cap, n) == IF cap # 0 THEN RangeLen(Min(cap \div 5, n)) ELSE n

\* the two get_dataset calls and the truncation to the subset
Load ==
    /\ pc = "load"
    /\ \E tl \in Stage2TrainLens, sl \in Stage2TestLens :
          /\ train_dataset' = [base |-> tl, first |-> TrainView(subset_size, tl)]
          /\ test_dataset' = [base |-> sl, first |-> TestView(subset_size, sl)]
    /\ stage2_ran' = TRUE
    /\ pc' = "extract_train"
    /\ UNCHANGED <<runs, ckpt, trainVars, subset_size, train_features,
                   test_features, classifiers, results, gate_ret, exitVars,
                   histVars, gateLog, cause, gated, raisedAt,
                   evaluated>>

\* train_features, train_labels = cifar_exp.extract_features(train_dataset)
ExtractTrain ==
    /\ pc = "extract_train"
    /\ train_features' = train_dataset.first
    /\ stage2_ran' = TRUE
    /\ pc' = "extract_test"
    /\ UNCHANGED <<runs, ckpt, trainVars, subset_size, train_dataset,
                   test_dataset, test_features, classifiers, results, gate_ret,
                   exitVars, histVars, gateLog, cause, gated, raisedAt,
                   evaluated>>

\* test_features, test_labels = cifar_exp.extract_features(test_dataset)
ExtractTest ==
    /\ pc = "extract_test"
    /\ test_features' = test_dataset.first
    /\ stage2_ran' = TRUE
    /\ pc' = "classify"
    /\ UNCHANGED <<runs, ckpt, trainVars, subset_size, train_dataset,
                   test_dataset, train_features, classifiers, results, gate_ret,
                   exitVars, histVars, gateLog, cause, gated, raisedAt,
                   evaluated>>

\* one iteration of the classifier loop: results[clf_name] = {...}
Classify ==
    /\ pc = "classify"
    /\ Len(results) < Len(classifiers)
    /\ \E a \in AccuracyValues :
          /\ results' = Append(results,
                         [name |-> classifiers[Len(results) + 1], accuracy |-> a])
          /\ evaluated' = Append(evaluated, a)
    /\ stage2_ran' = TRUE
    /\ UNCHANGED <<pc, runs, ckpt, trainVars, subset_size, train_dataset,
                   test_dataset, train_features, test_features, classifiers,
                   gate_ret, exitVars, histVars, gateLog, cause, gated, raisedAt>>

\* variant: an empty result mapping does not fail the gate
QualityFail_NonEmpty(res) ==
    res # <<>> /\ \A i \in 1..Len(res) : res[i].accuracy < QualityFloor

\* variant: the comparison with the floor is not strict
QualityFail_NonStrict(res) == \A i \in 1..Len(res) : res[i].accuracy <= QualityFloor

\* all(metrics["accuracy"] < 10.0 for metrics in results.values())
QualityFail(res) == \A i \in 1..Len(res) : res[i].accuracy < QualityFloor

\* the classifier loop ends; results are logged and the quality gate decides
QualityGate ==
    /\ pc = "classify"
    /\ Len(results) = Len(classifiers)
    /\ IF QualityFail(results)
       THEN runResult' = "false" /\ cause' = "quality_floor"
       ELSE runResult' = "true" /\ cause' = cause
    /\ gated' = <<[i \in 1..Len(results) |-> results[i].accuracy]>>
    /\ stage2_ran' = TRUE
    /\ pc' = "main_check"
    /\ ResetStage
    /\ UNCHANGED <<runs, ckpt, trainVars, gate_ret, exitStatus, exitPath,
                   histVars, gateLog, raisedAt,
                   evaluated>>

\* ------------------------------------------------------ faults and crashes
\* places where a collaborator (dataset, network, optimizer, torch.save,
\* feature extraction, classifier) may raise an exception
RaisePcs == {"build", "train_batch", "val_batch", "saving"} \cup Stage2Pcs

Raise ==
    /\ pc \in RaisePcs
    /\ Propagate(IF InTry(pc) THEN "stage_error" ELSE "train_error")
    /\ UNCHANGED ckpt

\* the process is killed (power loss, SIGKILL) at any point
Crash ==
    /\ pc \in RunningPcs
    /\ pc' = "exited"
    /\ exitStatus' = 137 /\ exitPath' = "killed"
    /\ cause' = "killed"
    /\ gateLog' = IF pc \in GatePcs THEN LogSet("ret", "killed") ELSE gateLog
    /\ ResetTrain /\ ResetStage
    /\ val_accs' = <<>> /\ stored' = <<>>
    /\ gated' = <<>> /\ evaluated' = <<>>
    /\ UNCHANGED <<runs, ckpt, gate_ret, runResult, stage2_ran, raisedAt>>

Next ==
    \/ Main \/ MainCheck
    \/ VerifyCheckpoint \/ Build
    \/ EpochLoop \/ TrainBatch \/ ValStart \/ ValBatch \/ ValEnd
    \/ Decide \/ SaveFinish \/ SchedStep \/ TrainReturn
    \/ GateCheck \/ Construct \/ Load \/ ExtractTrain \/ ExtractTest
    \/ Classify \/ QualityGate
    \/ Raise \/ Crash

Spec == Init /\ [][Next]_vars

\* ------------------------------------------------- the full-length schedule
\* epochs=200, the default of train_model that verify_checkpoint relies on
DefaultEpochs == 200
\* one training run of the default length on fixed data: a training set of one
\* full batch and a validation set of 100 samples, 55 of them always correct
LrTrainLens == {128}
LrValLens == {100}
LrValPct == {55}

LrNext ==
    \/ Main \/ VerifyCheckpoint \/ BuildWith(LrTrainLens, LrValLens)
    \/ EpochLoopFor(DefaultEpochs) \/ TrainBatchWith(TrainPct) \/ ValStart
    \/ ValBatchWith(LrValPct) \/ ValEnd \/ Decide \/ SaveFinish \/ SchedStep
    \/ TrainReturn

LrSpec == Init /\ [][LrNext]_vars

\* ------------------------------------------------ one training run in detail
\* one train_model call on a training set of one full batch and a validation
\* set of 100 samples, of which 0, 40, 50, 52 or 55 are predicted correctly
ExamplePct == {0, 40, 50, 52, 55}

TrainNext ==
    \/ Main \/ VerifyCheckpoint \/ BuildWith(LrTrainLens, LrValLens)
    \/ EpochLoopFor(Epochs) \/ TrainBatchWith(TrainPct) \/ ValStart
    \/ ValBatchWith(ExamplePct) \/ ValEnd \/ Decide \/ SaveFinish \/ SchedStep
    \/ TrainReturn

TrainSpec == Init /\ [][TrainNext]_vars

\* =================================================================== claims

\* the maximum of the validation accuracies of epochs 0..e-1 of this call
MaxUpTo(e) == MaxAcc(SubSeq(val_accs, 1, e))

\* C1 as stated: after every epoch's checkpoint decision a record is stored
\* whose accuracy is the maximum validation accuracy of the epochs so far,
\* and the stored accuracy never decreases from one epoch to the next.
C1_StoredIsMaxAlways ==
    \A e \in 1..Len(stored) :
        /\ stored[e].file = "complete"
        /\ FloatEQ(stored[e].acc, MaxUpTo(e))
        /\ e > 1 => FloatGE(stored[e].acc, stored[e - 1].acc)

\* C1 amended: after epoch e's checkpoint decision, if some validation
\* accuracy of epochs 0..e was above 0 the record exists and its accuracy is
\* the maximum of those accuracies, and otherwise no record has been written;
\* once a record exists its accuracy never decreases from epoch to epoch.
C1_StoredIsMax ==
    \A e \in 1..Len(stored) :
        /\ FloatGT(MaxUpTo(e), Zero) =>
              stored[e].file = "complete" /\ FloatEQ(stored[e].acc, MaxUpTo(e))
        /\ ~FloatGT(MaxUpTo(e), Zero) => stored[e].file = "none"
        /\ (e > 1 /\ stored[e - 1].file = "complete") =>
              /\ stored[e].file = "complete"
              /\ FloatGE(stored[e].acc, stored[e - 1].acc)

\* a full run whose accuracy first rises and then falls below the stored one
C1_Witness ==
    /\ Len(stored) = Epochs
    /\ stored[1].file = "complete"
    /\ FloatGT(stored[2].acc, stored[1].acc)
    /\ FloatGT(stored[Epochs].acc, val_accs[Epochs])

\* C2: a verify_checkpoint call that finds a file at CHECKPOINT_PATH does no
\* training and returns True, and so does the call that follows it.
C2_GateIdempotent ==
    \A i \in 1..Len(gateLog) :
        gateLog[i].file # "none" =>
            /\ ~gateLog[i].trained /\ gateLog[i].ret = "true"
            /\ i < Len(gateLog) =>
                  /\ gateLog[i + 1].file # "none"
                  /\ ~gateLog[i + 1].trained /\ gateLog[i + 1].ret = "true"

\* two calls in a row that both found a complete record
C2_Witness ==
    /\ Len(gateLog) = 2
    /\ gateLog[1].file = "complete" /\ gateLog[1].ret = "true"
    /\ gateLog[2].file = "complete" /\ gateLog[2].ret = "true"

\* C3: once verify_checkpoint has returned False, the run executes no
\* stage-2 step and run_cifar100_experiment returns False.
C3_GateFalseAborts ==
    gate_ret = "false" =>
        /\ ~stage2_ran
        /\ pc \in {"gate_check", "main_check", "exited"}
        /\ pc = "main_check" => runResult = "false"
        /\ (pc = "exited" /\ exitPath # "killed") => runResult = "false"

C3_Witness ==
    /\ gate_ret = "false" /\ pc = "exited"
    /\ runResult = "false" /\ ~stage2_ran

\* C4: a process that has exited has status 0 only if the experiment
\* succeeded, has status 0 whenever it succeeded and main ran to its end, and
\* has a non-zero status after every failure (training floor, quality floor,
\* internal error).
C4_ExitStatus ==
    pc = "exited" =>
        /\ exitStatus = 0 => runResult = "true"
        /\ (runResult = "true" /\ exitPath # "killed") => exitStatus = 0
        /\ cause # "none" => exitStatus # 0
        /\ runResult # "true" => exitStatus # 0

\* a run that failed the quality floor and exited with a non-zero status
C4_Witness ==
    /\ pc = "exited" /\ cause = "quality_floor"
    /\ exitPath = "sys_exit" /\ exitStatus = 1

\* C5: when the quality gate has judged, the run's result is False if every
\* accuracy is strictly below 10.0 and True otherwise; [9.9, 9.9] gives False
\* and [9.9, 10.0] gives True.
C5_QualityGate ==
    (pc = "main_check" /\ gated # <<>>) =>
        LET judged == gated[1] IN
        /\ runResult = "false" <=>
              \A i \in 1..Len(judged) : judged[i] < QualityFloor
        /\ runResult \in {"true", "false"}
        /\ judged = <<99, 99>> => runResult = "false"
        /\ judged = <<99, 100>> => runResult = "true"

C5_Witness ==
    /\ pc = "main_check" /\ gated = << <<99, 100>> >>
    /\ runResult = "true"

\* C6: an exception raised by a stage-2 step is caught in
\* run_cifar100_experiment, which returns False; it never escapes, and the
\* process exits through sys.exit(1).
C6_StageErrorCaught ==
    raisedAt \in Stage2Pcs =>
        /\ runResult = "false"
        /\ exitPath \in {"none", "sys_exit", "killed"}
        /\ pc \in {"main_check", "exited"}
        /\ (pc = "exited" /\ exitPath # "killed") =>
              exitPath = "sys_exit" /\ exitStatus = 1

\* a fault in the extraction of the test split's features
C6_Witness ==
    /\ raisedAt = "extract_test" /\ pc = "exited"
    /\ exitPath = "sys_exit" /\ exitStatus = 1

\* C7: an exception raised by a batch of a training or validation pass is
\* caught by run_cifar100_experiment, which returns False, and does not
\* escape to end the process.
C7_TrainFaultCaught ==
    raisedAt \in {"train_batch", "val_batch"} =>
        exitPath # "uncaught" /\ runResult = "false"

\* C8: verify_checkpoint never accepts a half-written file as an existing
\* checkpoint.
C8_NoPartialAccepted ==
    \A i \in 1..Len(gateLog) :
        gateLog[i].file = "partial" => gateLog[i].ret # "true"

\* C9: verify_checkpoint returns False only if train_model ran to completion
\* in that call and its best validation accuracy did not exceed 50; whenever a
\* file existed, or training completed above 50, it returned True.
C9_FalseOnlyBelowFloor ==
    \A i \in 1..Len(gateLog) :
        LET g == gateLog[i] IN
        /\ g.ret = "false" =>
              /\ g.file = "none" /\ g.trained /\ g.completed
              /\ ~FloatGT(g.observed, TrainFloor)
        /\ (g.ret \in {"true", "false"} /\ g.file # "none") => g.ret = "true"
        /\ (g.completed /\ FloatGT(g.observed, TrainFloor)) => g.ret = "true"

\* a call that trained to exactly 50 and returned False
C9_Witness ==
    \E i \in 1..Len(gateLog) :
        /\ gateLog[i].ret = "false" /\ gateLog[i].completed
        /\ FloatEQ(gateLog[i].observed, TrainFloor)

\* C10: with a cap configured, the train view is the first
\* min(subset_size, len(train)) samples and the test view the first
\* min(subset_size // 5, len(test)) samples; cap 5000 on 4000 train samples
\* keeps 4000, and on 100000 test samples keeps 1000.
C10_SubsetTruncation ==
    (pc \in {"extract_train", "extract_test", "classify"} /\ subset_size # 0) =>
        /\ train_dataset.first = Min(subset_size, train_dataset.base)
        /\ test_dataset.first = Min(subset_size \div 5, test_dataset.base)
        /\ (subset_size = 5000 /\ train_dataset.base = 4000) =>
              train_dataset.first = 4000
        /\ (subset_size = 5000 /\ test_dataset.base = 100000) =>
              test_dataset.first = 1000

C10_Witness ==
    /\ pc = "extract_train" /\ subset_size = 5000
    /\ train_dataset = [base |-> 4000, first |-> 4000]
    /\ test_dataset = [base |-> 100000, first |-> 1000]

\* the learning rate (in units of 1e-4) that gamma^(number of milestones <= e)
\* gives for epoch e
RECURSIVE Power(_, _)
Power(b, k) == IF k = 0 THEN 1 ELSE b * Power(b, k - 1)
ExpectedLr(e) ==
    InitialLr \div Power(5, Cardinality({m \in {60, 120, 160} : m <= e}))

\* the training phase of the current epoch has used the learning rate
LrInEffect ==
    \/ pc = "train_batch" /\ bi > 0
    \/ pc \in {"val_batch", "decide", "saving", "sched"}

\* C11: the learning rate in effect during the training phase of epoch e is
\* 0.1 * 0.2^(number of milestones <= e): multiplier 1.0 for epochs 0-59, 0.2
\* for 60-119, 0.04 for 120-159, 0.008 from 160 on; the rate the next epoch
\* will use is never above the rate the last one used.
C11_LrSchedule ==
    /\ LrInEffect =>
          /\ current_lr = <<ExpectedLr(epoch)>>
          /\ epoch <= 59 => current_lr[1] = 1000
          /\ (60 <= epoch /\ epoch <= 119) => current_lr[1] = 200
          /\ (120 <= epoch /\ epoch <= 159) => current_lr[1] = 40
          /\ 160 <= epoch => current_lr[1] = 8
    /\ (pc \in TrainPcs /\ current_lr # <<>>) => lr <= current_lr[1]

\* the last epoch of the default run trains at 0.008 times the initial rate
C11_Witness ==
    /\ pc = "sched" /\ epoch = DefaultEpochs - 1
    /\ current_lr = <<8>>

\* the 0-based index of the earliest epoch whose accuracy is the maximum
EarliestBest ==
    (CHOOSE i \in 1..Len(val_accs) :
         /\ FloatEQ(val_accs[i], MaxAcc(val_accs))
         /\ \A j \in 1..(i - 1) : ~FloatEQ(val_accs[j], MaxAcc(val_accs))) - 1

\* the validation accuracies 40, 55, 52 on 100 samples
ExampleAccs == << <<4000, 100>>, <<5500, 100>>, <<5200, 100>> >>

\* the latest verify_checkpoint call ran train_model to its end
TrainingFinished == gateLog # <<>> /\ gateLog[Len(gateLog)].completed

\* C12 as stated: when train_model has finished, the record's epoch is the
\* earliest epoch that attained the maximum validation accuracy, and the
\* result is true exactly when that maximum is above 50.
C12_EarliestBestAlways ==
    /\ pc = "train_ret" =>
          /\ ckpt.file = "complete"
          /\ FloatEQ(ckpt.acc, MaxAcc(val_accs))
          /\ ckpt.epoch = EarliestBest
    /\ TrainingFinished =>
          (gateLog[Len(gateLog)].ret = "true"
              <=> FloatGT(gateLog[Len(gateLog)].observed, TrainFloor))

\* C12 amended: when train_model has finished and some validation accuracy
\* was above 0, the record holds the maximum accuracy and the index of the
\* earliest epoch that attained it (a later tie does not overwrite it); when
\* every accuracy was 0 no record has been written.  The result is true
\* exactly when the maximum is above 50; accuracies [40, 55, 52] give
\* accuracy 55, epoch 1 and result true.
C12_EarliestBest ==
    /\ pc = "train_ret" =>
          /\ FloatGT(MaxAcc(val_accs), Zero) =>
                /\ ckpt.file = "complete"
                /\ FloatEQ(ckpt.acc, MaxAcc(val_accs))
                /\ ckpt.epoch = EarliestBest
          /\ ~FloatGT(MaxAcc(val_accs), Zero) => ckpt.file = "none"
          /\ val_accs = ExampleAccs =>
                ckpt.acc = <<5500, 100>> /\ ckpt.epoch = 1
    /\ TrainingFinished =>
          /\ gateLog[Len(gateLog)].ret = "true"
                <=> FloatGT(gateLog[Len(gateLog)].observed, TrainFloor)
          /\ gateLog[Len(gateLog)].observed = <<5500, 100>> =>
                gateLog[Len(gateLog)].ret = "true"

\* the run of the example has finished its last epoch
C12_Witness ==
    /\ pc = "train_ret" /\ val_accs = ExampleAccs
    /\ ckpt.acc = <<5500, 100>> /\ ckpt.epoch = 1

\* numbers of training batches, validation passes, checkpoint decisions and
\* scheduler steps a train_model call has completed
PhaseCounts == <<steps, Len(val_accs), Len(stored), last_epoch>>
BatchesPerEpoch == Len(train_loader)

\* C13: in every epoch the train pass, the validation pass, the checkpoint
\* decision and the schedule step happen once each and in this order: at each
\* position of epoch e, every earlier phase has been completed e + 1 times
\* and every later phase e times; the scheduler has been stepped once per
\* completed epoch and not yet for the epoch under way.
C13_PhaseOrder ==
    /\ pc = "epoch" =>
          PhaseCounts = <<epoch * BatchesPerEpoch, epoch, epoch, epoch>>
    /\ pc = "train_batch" =>
          PhaseCounts = <<epoch * BatchesPerEpoch + bi, epoch, epoch, epoch>>
    /\ pc = "val_batch" =>
          PhaseCounts = <<(epoch + 1) * BatchesPerEpoch, epoch, epoch, epoch>>
    /\ pc \in {"decide", "saving"} =>
          PhaseCounts = <<(epoch + 1) * BatchesPerEpoch, epoch + 1, epoch, epoch>>
    /\ pc = "sched" =>
          PhaseCounts = <<(epoch + 1) * BatchesPerEpoch, epoch + 1, epoch + 1, epoch>>
    /\ pc = "train_ret" =>
          /\ epoch = Epochs
          /\ PhaseCounts = <<Epochs * BatchesPerEpoch, Epochs, Epochs, Epochs>>

\* the last epoch is about to step the scheduler
C13_Witness ==
    /\ pc = "sched" /\ epoch = Epochs - 1
    /\ PhaseCounts = <<Epochs * 2, Epochs, Epochs, Epochs - 1>>

\* C14: from any position outside train_model at which a file is at
\* CHECKPOINT_PATH (the start of a run included), every step of the run,
\* whatever its outcome, leaves the file as it is and does not enter
\* verify_checkpoint's training branch.
C14_RecordUntouched ==
    [][(ckpt.file # "none" /\ pc \notin GatePcs)
          => (ckpt' = ckpt /\ pc' \notin GatePcs)]_vars

\* a second run that found the record of an earlier one, ran stage 2 and
\* exited
C14_Witness ==
    /\ pc = "exited" /\ runs >= 2 /\ stage2_ran
    /\ gateLog[Len(gateLog)].file = "complete"
    /\ ~gateLog[Len(gateLog)].trained
    /\ ckpt.file = "complete"

\* C15: once the evaluation of a classifier has raised, the run is out of the
\* classifier loop for good (no further classifier is evaluated, the quality
\* gate judges nothing) and its result is False, whatever accuracies the
\* classifiers before it had; the process then exits with a non-zero status.
C15_ClassifierFaultFails ==
    raisedAt = "classify" =>
        /\ pc \in {"main_check", "exited"}
        /\ runResult = "false"
        /\ gated = <<>>
        /\ pc = "exited" => exitStatus # 0

\* the second classifier raised after the first had reached the floor
C15_Witness ==
    /\ pc = "main_check" /\ raisedAt = "classify"
    /\ evaluated = <<QualityFloor>>
    /\ runResult = "false"

\* number of samples in the first n batches of a loader
RECURSIVE SamplesIn(_, _)
SamplesIn(loader, n) == IF n = 0 THEN 0 ELSE SamplesIn(loader, n - 1) + loader[n]

\* C16: every train pass and every validation pass starts with its loss,
\* correct and total counters at zero, each validation batch adds its own
\* size and its own correct predictions, and the accuracy the checkpoint
\* decision of an epoch uses is 100 * correct / total over exactly that
\* epoch's validation samples.
C16_CountersPerPass ==
    [][/\ (pc # "train_batch" /\ pc' = "train_batch") =>
             (train_loss' = 0 /\ correct' = 0 /\ total' = 0)
       /\ (pc # "val_batch" /\ pc' = "val_batch") =>
             (val_loss' = 0 /\ correct' = 0 /\ total' = 0)
       /\ (pc = "val_batch" /\ pc' = "val_batch") =>
             /\ total' = SamplesIn(val_loader, bi')
             /\ (correct' - correct) \in 0..val_loader[bi']
       /\ (pc = "val_batch" /\ pc' = "decide") =>
             /\ total = SamplesIn(val_loader, Len(val_loader))
             /\ acc' = <<100 * correct, total>>
             /\ val_accs' = Append(val_accs, acc')]_vars

\* the second epoch decides on 65 correct of 130 validation samples after a
\* first epoch with another accuracy and a train pass over 256 samples
C16_Witness ==
    /\ pc = "decide" /\ epoch = 1
    /\ Len(train_loader) = 2
    /\ correct = 65 /\ total = 130
    /\ acc = <<6500, 130>>
    /\ val_accs[1] # acc

\* C17: train_model never summarises an empty pass: no run ends because the
\* accuracy was computed with a total of 0 or because the epoch's log line
\* read a learning rate no training batch had set.
C17_EmptyPassGuarded ==
    cause \notin {"ZeroDivisionError", "UnboundLocalError"}

\* a verify_checkpoint call whose training ran to its end below the floor
\* with some validation accuracy above 0
FailedWithRecord(g) == g.ret = "false" /\ FloatGT(g.observed, Zero)

\* C18: a verify_checkpoint call that trained to the end, stayed at or below
\* the floor of 50 and saw an accuracy above 0 returned False and left a
\* record holding that sub-floor best accuracy; the next call finds the
\* record, trains nothing and returns True, and the run it belongs to goes on
\* into stage 2.
C18_SubFloorReuse ==
    \A i \in 1..Len(gateLog) :
        FailedWithRecord(gateLog[i]) =>
            /\ gateLog[i].completed
            /\ ~FloatGT(gateLog[i].observed, TrainFloor)
            /\ ckpt.file = "complete"
            /\ FloatEQ(ckpt.acc, gateLog[i].observed)
            /\ i = Len(gateLog) => gate_ret \in {"false", "none"} /\ ~stage2_ran
            /\ i < Len(gateLog) =>
                  /\ gateLog[i + 1].file = "complete"
                  /\ ~gateLog[i + 1].trained
                  /\ gateLog[i + 1].ret = "true"
                  /\ gate_ret = "true" =>
                        /\ pc \in {"gate_check", "main_check", "exited"}
                                  \cup Stage2Pcs
                        /\ cause # "train_floor"
                        /\ (pc = "main_check" \/
                            (pc = "exited" /\ exitPath # "killed")) =>
                               (stage2_ran \/ raisedAt \in Stage2Pcs)

\* a run that failed the training floor, followed by a run that reused its
\* record and finished stage 2
C18_Witness ==
    /\ Len(gateLog) = 2
    /\ FailedWithRecord(gateLog[1])
    /\ gateLog[2].ret = "true" /\ ~gateLog[2].trained
    /\ pc = "main_check" /\ stage2_ran /\ gated # <<>>

\* C19: whenever a run is in stage 2, a complete record is at
\* CHECKPOINT_PATH, and if this run's verify_checkpoint call trained it, the
\* record's accuracy is above 50.
C19_RecordAtStage2 ==
    pc \in Stage2Pcs =>
        /\ ckpt.file = "complete"
        /\ gateLog[Len(gateLog)].trained => FloatGT(ckpt.acc, TrainFloor)

\* C20: with no classifier configured the classifier loop evaluates nothing,
\* the quality gate judges an empty result mapping and reports failure with
\* the quality floor as the cause, and the process then exits with a non-zero
\* status.
C20_EmptyClassifierSet ==
    [][/\ (pc = "classify" /\ classifiers = <<>>) =>
             /\ results = <<>> /\ evaluated = <<>>
             /\ pc' = "main_check" =>
                   /\ runResult' = "false"
                   /\ raisedAt' = raisedAt =>
                         (gated' = << <<>> >> /\ cause' = "quality_floor")
       /\ gated = << <<>> >> =>
             /\ pc = "main_check" /\ runResult = "false"
             /\ pc' = "exited" => exitStatus' # 0]_vars

\* the quality gate has judged an empty result mapping
C20_Witness ==
    /\ pc = "main_check" /\ gated = << <<>> >>
    /\ runResult = "false" /\ cause = "quality_floor"
    /\ evaluated = <<>> /\ stage2_ran
====
